---- MODULE Spec2Model ----
(***************************************************************************)
(* A state-machine model of the desync scheduler: the per-queue state      *)
(* machine (QueueState), the global schedule (run-list), the caller-side   *)
(* operations of Scheduler (desync, future, suspend, resume, sync with its *)
(* three run actions) and the pool threads that run pending queues.        *)
(*                                                                         *)
(* Every critical section on a queue's core mutex, on the schedule mutex   *)
(* or on a sync call's result mutex is one atomic action; everything a     *)
(* thread does between two critical sections is attached to the next one.  *)
(* A job is being polled from the action that dequeues it (or starts the   *)
(* closure) until the action in which its run() returns.                   *)
(***************************************************************************)
EXTENDS Integers, Sequences, FiniteSets, TLC

\* ---------------------------------------------------------------- bounds
NCallers == 2        \* threads calling into the scheduler
NWorkers == 1        \* scheduler pool threads
NQueues == 2         \* queues that can exist (a specification uses a subset)
MaxDesync == 2       \* desync() calls per behaviour
MaxSync == 2         \* sync() calls per behaviour
MaxSuspend == 1      \* suspend() calls per behaviour (each paired with a resume())
MaxFuture == 1       \* future()/after() calls per behaviour
MaxPending == 1      \* times one future job returns Poll::Pending
MaxPanic == 1        \* job bodies that panic per behaviour
MaxDrop == 1         \* drops of the Desync per behaviour
SuspDesync == 1      \* desync() calls, behaviours with nested suspensions
SuspSync == 1        \* sync() calls, behaviours with nested suspensions
SuspSuspend == 2     \* suspend() calls, behaviours with nested suspensions
DropDesync == 1      \* desync() calls, behaviours with a drop
DropSync == 1        \* sync() calls, behaviours with a drop
DropSuspend == 1     \* suspend() calls, behaviours with a drop
PanicDesync == 2     \* desync() calls, behaviours with a panicking job
PanicSync == 1       \* sync() calls, behaviours with a panicking job
PanicSuspend == 1    \* suspend() calls, behaviours with a panicking job
FutDesync == 1       \* desync() calls, behaviours with future jobs
FutSync == 1         \* sync() calls, behaviours with future jobs
FutSuspend == 1      \* suspend() calls, behaviours with future jobs
PipeDesync == 1      \* desync() calls of the other users of a piped-into Desync
PipeSync == 1        \* sync() calls of the other users of a piped-into Desync
PipeSuspend == 1     \* suspend() calls on a piped-into Desync
MaxItems == 2        \* items and errors the piped stream produces
MaxValue == 1        \* distinct values of an item or an error
MaxNotify == 1       \* notifications the piped stream sends to its task
RunDesync == 1       \* desync() calls, behaviours with repeated sync calls
RunSync == 3         \* sync() calls, behaviours with repeated sync calls
RunSuspend == 1      \* suspend() calls, behaviours with repeated sync calls
NestSync == 2        \* sync() calls, behaviours with three suspensions
NestSuspend == 3     \* suspend() calls, behaviours with three suspensions

Callers == 1..NCallers
Workers == (NCallers + 1)..(NCallers + NWorkers)
Threads == Callers \cup Workers
Queues == 1..NQueues

\* ------------------------------------------------------------ QueueState
Idle == "Idle"
Pending == "Pending"
Running == "Running"
AwokenWhileRunning == "AwokenWhileRunning"
WaitingForWake == "WaitingForWake"
Suspending == "Suspending"
Suspended == "Suspended"
Panicked == "Panicked"
QueueState == {Idle, Pending, Running, AwokenWhileRunning, WaitingForWake,
               Suspending, Suspended, Panicked}

\* ------------------------------------------------------------------ jobs
\* kind: "job" (desync closure), "suspend" (the closure suspend() queues),
\* "future" (FutureJob), "sync" (UnsafeJob of a sync call; owner = the caller),
\* "drop" (the sync job Desync::drop submits; owner = the caller).
JobKinds == {"job", "suspend", "future", "sync", "drop"}
NoJob == [id |-> 0, kind |-> "none", owner |-> 0, polls |-> 0]
NewJob(i, k, o, p) == [id |-> i, kind |-> k, owner |-> o, polls |-> p]
IsSyncKind(k) == k \in {"sync", "drop"}

Ops == {"desync", "sync", "suspend", "future", "panic", "drop"}

VARIABLES
    state,              \* [Queues -> QueueState]      JobQueueCore.state
    queue,              \* [Queues -> Seq(job)]        JobQueueCore.queue
    suspension_count,   \* [Queues -> Int]             JobQueueCore.suspension_count
    schedule,           \* Seq(Queues)                 SchedulerCore.schedule
    pc,                 \* [Threads -> position in the operation it executes]
    op,                 \* [Threads -> the operation a caller is inside]
    tq,                 \* [Threads -> the queue the thread works on, 0 if none]
    cur,                \* [Threads -> the job the thread holds]
    result,             \* [Callers -> "none" | "some"]  result slot of a sync call
    wakers,             \* wakers a polled future holds: [q, t], t = 0 for the pool's waker
    budget,             \* [Ops -> calls still allowed in this behaviour]
    live,               \* the queues that exist
    nextId,             \* [Queues -> next submission number]           (history)
    done,               \* [Queues -> ids of the jobs that completed]   (history)
    hist,               \* further history variables, see HistInit
    pipe                \* the bridge pipe_in set up, see NoPipe (pipe.rs)

qvars == <<state, queue, suspension_count>>
tvars == <<pc, op, tq, cur, result>>
vars == <<state, queue, suspension_count, schedule, pc, op, tq, cur, result,
          wakers, budget, live, nextId, done, hist, pipe>>

\* History (never read by the program's actions):
\*  prior[t]      ids submitted on the queue before t's sync call started
\*  signalled[t]  the sync job of t has called notify_one
\*  suspends[q]   suspend() calls made, suspendRun[q] suspend jobs that ran,
\*  resumes[q]    resume() calls made
\*  suspendOk[q]  suspend jobs whose channel received () (count > 0 after increment)
\*  assertFailed  a debug_assert! of desync_scheduler.rs saw a false condition
\*  unexpected    a 'Queue was in unexpected state' panic was reached
\*  late[q]       ids of jobs submitted after the queue had become Panicked
\*  accepted[q]   a submission made after the queue had become Panicked did not fail
\*  everPanicked[q] the queue has been Panicked
\*  dropper[q]    the thread that dropped the Desync of q, dropped[q] its drop returned
\*  dropState[q]  the queue state the drop of the Desync of q found ("none" before)
\*  dropPanicked[q] the drop of the Desync of q panicked (desync_scheduler.rs 563)
\*  dataAlive[q]  the datum of the Desync of q has not been destroyed
\*  badStart[q]   ids of jobs that began to run while suspension_count > 0, after
\*                the job that took the suspension had completed
HistInit ==
    [prior |-> [t \in Callers |-> {}],
     signalled |-> [t \in Callers |-> FALSE],
     suspends |-> [q \in Queues |-> 0],
     suspendRun |-> [q \in Queues |-> 0],
     resumes |-> [q \in Queues |-> 0],
     suspendOk |-> [q \in Queues |-> 0],
     assertFailed |-> FALSE,
     unexpected |-> FALSE,
     late |-> [q \in Queues |-> {}],
     accepted |-> [q \in Queues |-> FALSE],
     everPanicked |-> [q \in Queues |-> FALSE],
     dropper |-> [q \in Queues |-> 0],
     dropped |-> [q \in Queues |-> FALSE],
     dropPanicked |-> [q \in Queues |-> FALSE],
     dropState |-> [q \in Queues |-> "none"],
     dataAlive |-> [q \in Queues |-> TRUE],
     badStart |-> [q \in Queues |-> {}]]

\* ------------------------------------------------------------ pipe_in
\* What Stream::poll hands to the bridge and the bridge to the processor: an
\* item, Ok(v), or an error, Err(v).
Events == [ok : BOOLEAN, v : 1..MaxValue]
NoEvent == [ok |-> TRUE, v |-> 0]

\* The thread on which the Desync of the monitor runs the polling job.
PipeThread == NCallers

\* The bridge pipe_in(desync, stream, process) sets up (pipe.rs 28-78, 286-300):
\*  this_poll  the Option<Spawn<PollFn>> of the monitor's Desync is Some
\*  queued     polling jobs queued on the monitor's Desync (299, 308)
\*  at         where the polling job is: "idle" (none runs), "loop" (44), "sync" (59, 69)
\*  item       the item or error handed to desync.sync
\*  ended      the stream has returned Ready(None)
\*  finished   the polling function has returned Ready(())
\*  started    the polling function has been polled
\*  notifies   notifications the stream has sent
\* and, as history: produced (what the stream returned), delivered (what the
\* processor was called with), polledAfterEnd (the stream was polled after its end).
\* For pipe(desync, stream, process) (85-160), which returns a PipeStream:
\*  mode       "pipe" (pipe_in: "in")
\*  pending, closed, notify   PipeStreamCore (165-174); notify = a task is registered
\*  down       "live", or "dropped" once the PipeStream was dropped
\*  downEnded  PipeStream::poll has returned Ready(None)
\* and, as history: taken (what PipeStream::poll returned), afterDrop (the
\* polling job in progress started after the drop), polledAfterDrop (such a
\* job polled the stream), parked (the last PipeStream::poll returned NotReady),
\* woken (the task registered by that poll has been notified).
\* The references to the monitor's Desync, an Arc (295-308):
\*  owner      monitor()'s own reference: "sync" while it is inside poll_fn.sync
\*             (299), "held" once that call has returned, "gone" after monitor()
\*             returned
\*  task       the task handle the stream holds, a clone of the Arc<PipeNotify>
\*             (269): "none", "held" (registered by a poll that returned NotReady)
\*             or "notified" (the stream has notified it and still holds it)
\*  handle     "live", "dropped" (Desync::drop has returned), or "stuck" (the
\*             thread inside Desync::drop waits for a job that cannot run)
\* (every queued polling job holds one more reference in its closure, 299 and
\* 308, and the running one holds it in its PipeNotify, 266-269).
NoPipe ==
    [this_poll |-> FALSE, queued |-> 0, at |-> "idle", item |-> NoEvent,
     ended |-> FALSE, finished |-> FALSE, started |-> FALSE, notifies |-> 0,
     produced |-> <<>>, delivered |-> <<>>, polledAfterEnd |-> FALSE,
     mode |-> "in", pending |-> <<>>, closed |-> FALSE, notify |-> FALSE,
     down |-> "live", downEnded |-> FALSE, taken |-> <<>>,
     afterDrop |-> FALSE, polledAfterDrop |-> FALSE,
     parked |-> FALSE, woken |-> FALSE,
     owner |-> "sync", task |-> "none", handle |-> "live"]

\* What the processor of a pipe returns for an item or an error.
Out(e) == [out |-> e.v, good |-> e.ok]

\* stream_core.notify.take().map(|notify| notify.notify()) (124, 148): the
\* registration is gone (TakeNotify) and the registered task, if any, has been
\* woken (Wake: n = a task is registered, w = the task was woken before).
TakeNotify(n) == FALSE

\* A variant that takes the registration and forgets to wake the task.
NoWake(n, w) == w

Wake(n, w) == w \/ n

\* The closure pipe_in passes to desync.sync calls the processor (59-63, 69-73);
\* the closure of pipe also appends the processor's output to the PipeStream
\* and notifies its task (138-149).
Processed(j) ==
    IF j.kind = "sync" /\ j.owner = PipeThread /\ pipe.at = "sync"
    THEN IF pipe.mode = "pipe"
         THEN [pipe EXCEPT !.delivered = Append(@, pipe.item),
                           !.pending = Append(@, Out(pipe.item)),
                           !.notify = TakeNotify(@),
                           !.woken = Wake(pipe.notify, @)]
         ELSE [pipe EXCEPT !.delivered = Append(@, pipe.item)]
    ELSE pipe

\* --------------------------------------------------------------- Init
\* Scheduler::new and create_job_queue: an empty schedule, queues Idle with an
\* empty job buffer and suspension_count 0; every thread outside any call.
InitState(qs, b) ==
    /\ state = [q \in Queues |-> Idle]
    /\ queue = [q \in Queues |-> <<>>]
    /\ suspension_count = [q \in Queues |-> 0]
    /\ schedule = <<>>
    /\ pc = [t \in Threads |-> "idle"]
    /\ op = [t \in Threads |-> "none"]
    /\ tq = [t \in Threads |-> 0]
    /\ cur = [t \in Threads |-> NoJob]
    /\ result = [t \in Callers |-> "none"]
    /\ wakers = {}
    /\ budget = b
    /\ live = qs
    /\ nextId = [q \in Queues |-> 1]
    /\ done = [q \in Queues |-> {}]
    /\ hist = HistInit

\* No stream is piped into the Desync.
InitWith(qs, b) == InitState(qs, b) /\ pipe = NoPipe

Budget(d, s, u, f, p, x) ==
    [o \in Ops |-> CASE o = "desync" -> d [] o = "sync" -> s [] o = "suspend" -> u
                     [] o = "future" -> f [] o = "panic" -> p [] o = "drop" -> x]

Spend(o) == [budget EXCEPT ![o] = @ - 1]

\* ------------------------------------------------ SchedulerCore helpers
\* The waker context a thread polls a future job with: the pool polls with a
\* waker of the queue (t = 0), sync_drain with WakeThread(queue, thread::current()).
WakerOf(t, q) == [q |-> q, t |-> IF t \in Workers THEN 0 ELSE t]

\* Polling a future job hands it the waker; a job of another kind ignores it.
Arm(t, q, j) == IF j.kind = "future" THEN wakers \cup {WakerOf(t, q)} ELSE wakers

\* The positions at which a thread is inside job.run() or the sync closure.
RunPcs == {"imm_run", "drain_run", "drain_run2", "w_run", "w_run2"}
Polling(t) == pc[t] \in RunPcs

\* A job began to run although the queue's suspension had taken effect.
BadStart(q, j) ==
    IF suspension_count[q] > 0 /\ \A u \in Threads : ~(Polling(u) /\ tq[u] = q)
    THEN {j.id} ELSE {}

\* Where a thread goes to when its current position's work is over.
GoIdle(t) == /\ op' = [op EXCEPT ![t] = "none"]
             /\ tq' = [tq EXCEPT ![t] = 0]

\* ------------------------------------------------- schedule_job_desync
\* A variant that moves every queue that is not Panicked to Pending.
ScheduleStateAll(s) ==
    IF s = Panicked THEN "Panicked" ELSE "Idle"

\* lines 186-199: what the submission found, by the queue state.
ScheduleState(s) ==
    IF s = Idle THEN "Idle" ELSE IF s = Panicked THEN "Panicked" ELSE "Running"

BudgetOf(k) == IF k = "job" THEN "desync" ELSE k

\* desync (165), future/after (243, 271) and suspend (284) all submit through
\* schedule_job_desync: push the job, then move an Idle queue to Pending. A
\* Panicked queue panics the caller (215) after the job was pushed (184).
schedule_job_desync(t, q, k) ==
    /\ pc[t] = "idle"
    /\ q \in live
    /\ budget[BudgetOf(k)] > 0
    /\ LET j == NewJob(nextId[q], k, 0, IF k = "future" THEN MaxPending ELSE 0)
           ss == ScheduleState(state[q])
       IN /\ queue' = [queue EXCEPT ![q] = Append(@, j)]
          /\ state' = [state EXCEPT ![q] = IF ss = "Idle" THEN Pending ELSE @]
          /\ pc' = [pc EXCEPT ![t] = CASE ss = "Idle" -> "sched_push"
                                       [] ss = "Panicked" -> "dead"
                                       [] OTHER -> "idle"]
          /\ op' = [op EXCEPT ![t] = IF ss = "Idle" THEN "desync" ELSE "none"]
          /\ tq' = [tq EXCEPT ![t] = IF ss = "Idle" THEN q ELSE 0]
          /\ hist' = [hist EXCEPT
                 !.suspends[q] = IF k = "suspend" THEN @ + 1 ELSE @,
                 !.late[q] = IF hist.everPanicked[q] THEN @ \cup {j.id} ELSE @,
                 !.accepted[q] = @ \/ (hist.everPanicked[q] /\ ss # "Panicked")]
    /\ nextId' = [nextId EXCEPT ![q] = @ + 1]
    /\ budget' = Spend(BudgetOf(k))
    /\ UNCHANGED <<pipe, suspension_count, schedule, cur, result, wakers, live, done>>

\* lines 204-210: the queue was Idle, add it to the schedule.
schedule_push(t) ==
    /\ pc[t] = "sched_push"
    /\ schedule' = Append(schedule, tq[t])
    /\ pc' = [pc EXCEPT ![t] = "idle"]
    /\ GoIdle(t)
    /\ UNCHANGED <<pipe, qvars, cur, result, wakers, budget, live, nextId, done, hist>>

\* ------------------------------------------------------ reschedule_queue
\* Where the caller of reschedule_queue continues.
AfterSchedule(o) ==
    CASE o \in {"sync_imm", "sync_drain"} -> "ret"
      [] o = "sync_bg" -> "bg_wait"
      [] OTHER -> "idle"

\* SchedulerCore::reschedule_queue, the critical section on the queue: "if a
\* queue is idle and has pending jobs, places it in the schedule" (128).
NeedsReschedule(s, jobs) == s = Idle /\ jobs # <<>>

reschedule_queue(t) ==
    /\ pc[t] = "resched"
    /\ LET q == tq[t]
           r == NeedsReschedule(state[q], queue[q])
           n == IF r THEN "resched_push" ELSE AfterSchedule(op[t])
       IN /\ state' = [state EXCEPT ![q] = IF r THEN Pending ELSE @]
          /\ pc' = [pc EXCEPT ![t] = n]
          /\ IF n = "idle" THEN GoIdle(t) ELSE UNCHANGED <<op, tq>>
    /\ UNCHANGED <<pipe, queue, suspension_count, schedule, cur, result, wakers,
                   budget, live, nextId, done, hist>>

\* SchedulerCore::reschedule_queue, the push on the schedule.
reschedule_push(t) ==
    /\ pc[t] = "resched_push"
    /\ schedule' = Append(schedule, tq[t])
    /\ LET n == AfterSchedule(op[t])
       IN /\ pc' = [pc EXCEPT ![t] = n]
          /\ IF n = "idle" THEN GoIdle(t) ELSE UNCHANGED <<op, tq>>
    /\ UNCHANGED <<pipe, qvars, cur, result, wakers, budget, live, nextId, done, hist>>

\* ----------------------------------------------------------------- sync
\* lines 547-556: the run action chosen from the queue state.
RunAction(s) ==
    CASE s \in {Suspended, Suspending, Running, WaitingForWake, AwokenWhileRunning}
            -> "WaitForBackground"
      [] s = Panicked -> "Panic"
      [] s = Pending -> "DrainOnThisThread"
      [] s = Idle -> "Immediate"

\* lines 554-555: Pending and Idle are moved to Running under the same lock.
SyncNextState(s) ==
    IF RunAction(s) \in {"DrainOnThisThread", "Immediate"} THEN Running ELSE s

\* Scheduler::sync, lines 544-564 (k = "sync"), and the sync call of
\* Desync::drop, desync.rs 168 (k = "drop").
SyncCall(t, q, k) ==
    /\ pc[t] = "idle"
    /\ q \in live
    /\ LET a == RunAction(state[q])
       IN /\ state' = [state EXCEPT ![q] = SyncNextState(@)]
          /\ pc' = [pc EXCEPT ![t] = CASE a = "Immediate" -> "imm_run"
                                       [] a = "DrainOnThisThread" -> "drain_push"
                                       [] a = "WaitForBackground" -> "bg_push"
                                       [] OTHER -> "dead"]
          /\ op' = [op EXCEPT ![t] = CASE a = "Immediate" -> "sync_imm"
                                       [] a = "DrainOnThisThread" -> "sync_drain"
                                       [] a = "WaitForBackground" -> "sync_bg"
                                       [] OTHER -> "none"]
          /\ tq' = [tq EXCEPT ![t] = IF a = "Panic" THEN 0 ELSE q]
          \* sync_immediate calls the closure directly (352); the other actions box it
          /\ cur' = [cur EXCEPT ![t] =
                        IF a = "Immediate" THEN NewJob(nextId[q], k, t, 0)
                        ELSE IF a = "Panic" THEN NoJob ELSE NewJob(0, k, t, 0)]
          /\ nextId' = [nextId EXCEPT ![q] = IF a = "Immediate" THEN @ + 1 ELSE @]
          /\ hist' = [hist EXCEPT !.prior[t] = 1..(nextId[q] - 1),
                                  !.signalled[t] = FALSE,
                                  !.dropper[q] = IF k = "drop" THEN t ELSE @,
                                  !.dropPanicked[q] = @ \/ (k = "drop" /\ a = "Panic"),
                                  !.dropState[q] = IF k = "drop" THEN state[q] ELSE @,
                                  !.accepted[q] = @ \/ (hist.everPanicked[q] /\ a # "Panic"),
                                  !.badStart[q] = IF a = "Immediate"
                                      THEN @ \cup BadStart(q, NewJob(nextId[q], k, t, 0))
                                      ELSE @]
    /\ result' = [result EXCEPT ![t] = "none"]
    /\ live' = IF k = "drop" THEN live \ {q} ELSE live
    /\ UNCHANGED <<queue, suspension_count, schedule, wakers, done>>

sync(t, q) ==
    /\ budget["sync"] > 0
    /\ budget' = Spend("sync")
    /\ SyncCall(t, q, "sync")
    /\ UNCHANGED pipe

\* sync_immediate lines 354-358: "Queue is now idle", then reschedule.
sync_immediate_idle(t) ==
    /\ pc[t] = "imm_idle"
    /\ state' = [state EXCEPT ![tq[t]] = Idle]
    /\ pc' = [pc EXCEPT ![t] = "resched"]
    /\ UNCHANGED <<pipe, queue, suspension_count, schedule, op, tq, cur, result, wakers,
                   budget, live, nextId, done, hist>>

\* JobQueue::dequeue as sync_drain uses it (392, 439): nothing while the queue is
\* Suspending, otherwise the front of the job buffer.
CanDequeue(s, jobs) == s # Suspending /\ jobs # <<>>

\* sync_drain lines 367-388: box the job and push its UnsafeJob.
sync_drain_push(t) ==
    /\ pc[t] = "drain_push"
    /\ LET q == tq[t]
       IN /\ queue' = [queue EXCEPT ![q] = Append(@, NewJob(nextId[q], cur[t].kind, t, 0))]
          /\ nextId' = [nextId EXCEPT ![q] = @ + 1]
          /\ hist' = [hist EXCEPT !.assertFailed = @ \/ state[q] # Running]
    /\ cur' = [cur EXCEPT ![t] = NoJob]
    /\ pc' = [pc EXCEPT ![t] = "drain_check"]
    /\ UNCHANGED <<pipe, state, suspension_count, schedule, op, tq, result, wakers,
                   budget, live, done>>

\* line 391: "while there is no result".
sync_drain_check(t) ==
    /\ pc[t] = "drain_check"
    /\ pc' = [pc EXCEPT ![t] = IF result[t] = "some" THEN "drain_idle" ELSE "drain_deq"]
    /\ UNCHANGED <<pipe, qvars, schedule, op, tq, cur, result, wakers, budget, live,
                   nextId, done, hist>>

\* lines 392-401: dequeue a job and poll it with a WakeThread waker.
sync_drain_dequeue(t) ==
    /\ pc[t] = "drain_deq"
    /\ LET q == tq[t]
       IN IF CanDequeue(state[q], queue[q])
          THEN /\ cur' = [cur EXCEPT ![t] = Head(queue[q])]
               /\ queue' = [queue EXCEPT ![q] = Tail(@)]
               /\ wakers' = Arm(t, q, Head(queue[q]))
               /\ pc' = [pc EXCEPT ![t] = "drain_run"]
               /\ hist' = [hist EXCEPT !.assertFailed = @ \/ state[q] # Running,
                                       !.badStart[q] = @ \cup BadStart(q, Head(queue[q]))]
          ELSE /\ pc' = [pc EXCEPT ![t] = "drain_none"]
               /\ UNCHANGED <<cur, queue, wakers, hist>>
    /\ UNCHANGED <<pipe, state, suspension_count, schedule, op, tq, result, budget,
                   live, nextId, done>>

\* lines 440-451: dequeue returned nothing.
sync_drain_none(t) ==
    /\ pc[t] = "drain_none"
    /\ LET q == tq[t]
       IN IF state[q] = Suspending
          THEN /\ state' = [state EXCEPT ![q] = Suspended]
               /\ pc' = [pc EXCEPT ![t] = "drain_wait"]
               /\ hist' = hist
          ELSE /\ state' = state
               /\ pc' = [pc EXCEPT ![t] = "drain_check"]
               /\ hist' = [hist EXCEPT !.assertFailed = @ \/ state[q] # Running]
    /\ UNCHANGED <<pipe, queue, suspension_count, schedule, op, tq, cur, result, wakers,
                   budget, live, nextId, done>>

\* lines 453-461: wait on the condition variable until the result is there.
sync_drain_wait(t) ==
    /\ pc[t] = "drain_wait"
    /\ result[t] = "some"
    /\ pc' = [pc EXCEPT ![t] = "drain_idle"]
    /\ UNCHANGED <<pipe, qvars, schedule, op, tq, cur, result, wakers, budget, live,
                   nextId, done, hist>>

\* lines 408-418: the job returned Poll::Pending.
PendingNextState(s) ==
    CASE s = AwokenWhileRunning -> Running
      [] s = Running -> WaitingForWake
      [] OTHER -> "panic"

sync_drain_pending(t) ==
    /\ pc[t] = "drain_pending"
    /\ LET q == tq[t]
           n == PendingNextState(state[q])
       IN /\ state' = [state EXCEPT ![q] = IF n = "panic" THEN Panicked ELSE n]
          /\ pc' = [pc EXCEPT ![t] = CASE n = Running -> "drain_run"
                                       [] n = WaitingForWake -> "drain_park"
                                       [] OTHER -> "dead"]
          /\ wakers' = IF n = Running THEN Arm(t, q, cur[t]) ELSE wakers
          /\ hist' = [hist EXCEPT !.unexpected = @ \/ n = "panic",
                        !.everPanicked[q] = @ \/ n = "panic"]
    /\ UNCHANGED <<pipe, queue, suspension_count, schedule, op, tq, cur, result,
                   budget, live, nextId, done>>

\* lines 423-433: parked; on wake-up the state is read again.
sync_drain_park(t) ==
    /\ pc[t] = "drain_park"
    /\ LET q == tq[t]
       IN /\ state[q] # WaitingForWake
          /\ IF state[q] = Idle
             THEN /\ pc' = [pc EXCEPT ![t] = "drain_run"]
                  /\ wakers' = Arm(t, q, cur[t])
                  /\ UNCHANGED <<state, hist>>
             ELSE /\ pc' = [pc EXCEPT ![t] = "dead"]
                  /\ state' = [state EXCEPT ![q] = Panicked]
                  /\ hist' = [hist EXCEPT !.unexpected = TRUE,
                                          !.everPanicked[q] = TRUE]
                  /\ UNCHANGED wakers
    /\ UNCHANGED <<pipe, queue, suspension_count, schedule, op, tq, cur, result,
                   budget, live, nextId, done>>

\* lines 470-471: the unconditional write of Idle, then reschedule.
sync_drain_idle(t) ==
    /\ pc[t] = "drain_idle"
    /\ state' = [state EXCEPT ![tq[t]] = Idle]
    /\ pc' = [pc EXCEPT ![t] = "resched"]
    /\ UNCHANGED <<pipe, queue, suspension_count, schedule, op, tq, cur, result, wakers,
                   budget, live, nextId, done, hist>>

\* sync_background lines 501-509: push the UnsafeJob, reschedule an Idle queue.
sync_background_push(t) ==
    /\ pc[t] = "bg_push"
    /\ LET q == tq[t]
       IN /\ queue' = [queue EXCEPT ![q] = Append(@, NewJob(nextId[q], cur[t].kind, t, 0))]
          /\ nextId' = [nextId EXCEPT ![q] = @ + 1]
          /\ pc' = [pc EXCEPT ![t] = IF state[q] = Idle THEN "resched" ELSE "bg_wait"]
    /\ cur' = [cur EXCEPT ![t] = NoJob]
    /\ UNCHANGED <<pipe, state, suspension_count, schedule, op, tq, result, wakers,
                   budget, live, done, hist>>

\* lines 512-521: wait for the result to arrive.
sync_background_wait(t) ==
    /\ pc[t] = "bg_wait"
    /\ result[t] = "some"
    /\ pc' = [pc EXCEPT ![t] = "ret"]
    /\ UNCHANGED <<pipe, qvars, schedule, op, tq, cur, result, wakers, budget, live,
                   nextId, done, hist>>

\* lines 520-521 and 474-477: take the result and return to the caller; the
\* boxed job is freed as the call returns.
Return(t) ==
    /\ pc[t] = "ret"
    /\ pc' = [pc EXCEPT ![t] = "idle"]
    /\ GoIdle(t)
    /\ cur' = [cur EXCEPT ![t] = NoJob]
    /\ result' = [result EXCEPT ![t] = "none"]
    /\ hist' = [hist EXCEPT !.dropped[tq[t]] = @ \/ hist.dropper[tq[t]] = t]
    /\ UNCHANGED <<pipe, qvars, schedule, wakers, budget, live, nextId, done>>

\* Desync::drop (desync.rs 151-172): the owner of the last reference, with no
\* other call on the Desync in progress, runs a last sync job that drops the data.
drop(t, q) ==
    /\ budget["drop"] > 0
    /\ budget' = Spend("drop")
    /\ \A u \in Callers : pc[u] \in {"idle", "dead"}
    /\ SyncCall(t, q, "drop")
    /\ UNCHANGED pipe

\* --------------------------------------------------------------- resume
\* A variant of the resume rule with an off-by-one slip: it resumes only when
\* the count has gone below zero.
ResumeStrict(c, s) ==
    IF c < 0 THEN (IF s = Suspended THEN Idle ELSE IF s = Suspending THEN Running ELSE s)
    ELSE s

\* lines 316-334: the state resume leaves, from the decremented count.
ResumeNextState(c, s) ==
    IF c <= 0 THEN (IF s = Suspended THEN Idle ELSE IF s = Suspending THEN Running ELSE s)
    ELSE s

ResumeNeedsReschedule(c, s) == c <= 0 /\ s = Suspended

\* Scheduler::resume, lines 312-339. Called once for each suspend() call, after it.
resume(t, q) ==
    /\ pc[t] = "idle"
    /\ q \in live
    /\ hist.resumes[q] < hist.suspends[q]
    /\ LET c == suspension_count[q] - 1
           r == ResumeNeedsReschedule(c, state[q])
       IN /\ suspension_count' = [suspension_count EXCEPT ![q] = c]
          /\ state' = [state EXCEPT ![q] = ResumeNextState(c, @)]
          /\ pc' = [pc EXCEPT ![t] = IF r THEN "resched" ELSE "idle"]
          /\ op' = [op EXCEPT ![t] = IF r THEN "resume" ELSE "none"]
          /\ tq' = [tq EXCEPT ![t] = IF r THEN q ELSE 0]
    /\ hist' = [hist EXCEPT !.resumes[q] = @ + 1]
    /\ UNCHANGED <<pipe, queue, schedule, cur, result, wakers, budget, live, nextId, done>>

\* ----------------------------------------------------------------- jobs
ReadyNext(p) ==
    CASE p = "imm_run" -> "imm_idle"
      [] p \in {"drain_run", "drain_run2"} -> "drain_check"
      [] OTHER -> "w_deq"

\* A variant of the count update that sets the count instead of incrementing it.
SuspendCountSet(c) == 1

\* The closure suspend() queues, lines 286-299.
SuspendCount(c) == c + 1
SuspendNextState(c, s) == IF SuspendCount(c) = 1 THEN Suspending ELSE s

\* job.run() returns Poll::Ready: the closure of a desync job or of suspend() ran,
\* a future resolved, or a sync job has notified its caller (381, 497).
JobReady(t) ==
    /\ Polling(t)
    /\ LET q == tq[t]
           j == cur[t]
       IN /\ IF IsSyncKind(j.kind) THEN pc[t] \in {"imm_run", "drain_run2", "w_run2"}
                                   ELSE pc[t] \in {"drain_run", "w_run"}
          /\ IF j.kind = "suspend"
             THEN /\ suspension_count' = [suspension_count EXCEPT ![q] = SuspendCount(@)]
                  /\ state' = [state EXCEPT ![q] = SuspendNextState(suspension_count[q], @)]
             ELSE UNCHANGED <<suspension_count, state>>
          /\ wakers' = IF j.kind = "future" THEN wakers \ {WakerOf(t, q)} ELSE wakers
          /\ done' = [done EXCEPT ![q] = @ \cup {j.id}]
          /\ hist' = [hist EXCEPT
                !.signalled = IF IsSyncKind(j.kind) /\ pc[t] # "imm_run"
                              THEN [@ EXCEPT ![j.owner] = TRUE] ELSE @,
                !.suspendRun[q] = IF j.kind = "suspend" THEN @ + 1 ELSE @,
                !.suspendOk[q] = IF j.kind = "suspend" /\ SuspendCount(suspension_count[q]) > 0
                                 THEN @ + 1 ELSE @,
                !.assertFailed = @ \/ (j.kind = "suspend" /\ state[q] # Running),
                !.dataAlive[q] = @ /\ ~(j.kind = "drop" /\ pc[t] = "imm_run")]
    /\ pipe' = IF pc[t] = "imm_run" THEN Processed(cur[t]) ELSE pipe
    /\ pc' = [pc EXCEPT ![t] = ReadyNext(pc[t])]
    /\ cur' = [cur EXCEPT ![t] = NoJob]
    /\ UNCHANGED <<queue, schedule, op, tq, result, budget, live, nextId>>

\* The queued sync job stores the closure's result in the caller's slot
\* (380, 496); the notify_one that follows is part of JobReady.
JobSetResult(t) ==
    /\ pc[t] \in {"drain_run", "w_run"}
    /\ IsSyncKind(cur[t].kind)
    /\ result' = [result EXCEPT ![cur[t].owner] = "some"]
    /\ pc' = [pc EXCEPT ![t] = IF pc[t] = "drain_run" THEN "drain_run2" ELSE "w_run2"]
    /\ hist' = [hist EXCEPT !.dataAlive[tq[t]] = @ /\ cur[t].kind # "drop"]
    /\ pipe' = Processed(cur[t])
    /\ UNCHANGED <<qvars, schedule, op, tq, cur, wakers, budget, live, nextId, done>>

\* A future job returns Poll::Pending.
JobPending(t) ==
    /\ pc[t] \in {"drain_run", "w_run"}
    /\ cur[t].kind = "future"
    /\ cur[t].polls > 0
    /\ cur' = [cur EXCEPT ![t].polls = @ - 1]
    /\ pc' = [pc EXCEPT ![t] = IF pc[t] = "drain_run" THEN "drain_pending" ELSE "w_pending"]
    /\ UNCHANGED <<pipe, qvars, schedule, op, tq, result, wakers, budget, live, nextId,
                   done, hist>>

\* The closure of a desync job panics: the ActiveQueue guard (349, 370, and the
\* pool's) marks the queue Panicked as the panic unwinds the thread.
JobPanic(t) ==
    /\ pc[t] \in {"drain_run", "w_run"}
    /\ cur[t].kind = "job"
    /\ budget["panic"] > 0
    /\ budget' = Spend("panic")
    /\ state' = [state EXCEPT ![tq[t]] = Panicked]
    /\ pc' = [pc EXCEPT ![t] = IF t \in Workers THEN "idle" ELSE "dead"]
    /\ cur' = [cur EXCEPT ![t] = NoJob]
    /\ GoIdle(t)
    /\ hist' = [hist EXCEPT !.everPanicked[tq[t]] = TRUE]
    /\ UNCHANGED <<pipe, queue, suspension_count, schedule, result, wakers, live, nextId, done>>

\* --------------------------------------------------------- pool threads
\* SchedulerCore::next_to_run: take the front of the schedule; run the queue if
\* it is Pending ("the thread won't start the queue while it's already running",
\* desync_scheduler.rs 466-469).
next_to_run(w) ==
    /\ pc[w] = "idle"
    /\ schedule # <<>>
    /\ LET q == Head(schedule)
       IN /\ schedule' = Tail(schedule)
          /\ IF state[q] = Pending
             THEN /\ state' = [state EXCEPT ![q] = Running]
                  /\ pc' = [pc EXCEPT ![w] = "w_deq"]
                  /\ tq' = [tq EXCEPT ![w] = q]
             ELSE UNCHANGED <<state, pc, tq>>
    /\ UNCHANGED <<pipe, queue, suspension_count, op, cur, result, wakers, budget, live,
                   nextId, done, hist>>

\* JobQueue::drain, one turn of the loop: a queue that was awoken while its job
\* ran is Running again once the job is Ready; a Suspending queue becomes
\* Suspended and an empty one Idle, and the thread leaves the queue; otherwise
\* the front job is polled with the queue's waker.
DrainState(s) == IF s = AwokenWhileRunning THEN Running ELSE s

run_queue(w) ==
    /\ pc[w] = "w_deq"
    /\ LET q == tq[w]
           s == DrainState(state[q])
       IN IF s = Running /\ queue[q] # <<>>
          THEN /\ cur' = [cur EXCEPT ![w] = Head(queue[q])]
               /\ queue' = [queue EXCEPT ![q] = Tail(@)]
               /\ state' = [state EXCEPT ![q] = s]
               /\ wakers' = Arm(w, q, Head(queue[q]))
               /\ pc' = [pc EXCEPT ![w] = "w_run"]
               /\ hist' = [hist EXCEPT !.badStart[q] = @ \cup BadStart(q, Head(queue[q]))]
               /\ UNCHANGED tq
          ELSE /\ state' = [state EXCEPT ![q] =
                               IF s = Suspending THEN Suspended
                               ELSE IF s = Running THEN Idle ELSE @]
               /\ pc' = [pc EXCEPT ![w] = "idle"]
               /\ tq' = [tq EXCEPT ![w] = 0]
               /\ UNCHANGED <<cur, queue, wakers, hist>>
    /\ UNCHANGED <<pipe, suspension_count, schedule, op, result, budget, live, nextId,
                   done>>

\* JobQueue::drain, the job returned Poll::Pending: re-poll it if the queue was
\* awoken meanwhile, else put it back at the front, wait for the wake and leave.
run_queue_pending(w) ==
    /\ pc[w] = "w_pending"
    /\ LET q == tq[w]
       IN IF state[q] = AwokenWhileRunning
          THEN /\ state' = [state EXCEPT ![q] = Running]
               /\ pc' = [pc EXCEPT ![w] = "w_run"]
               /\ wakers' = Arm(w, q, cur[w])
               /\ UNCHANGED <<queue, cur, tq>>
          ELSE /\ state' = [state EXCEPT ![q] = IF @ = Running THEN WaitingForWake ELSE @]
               /\ queue' = [queue EXCEPT ![q] = <<cur[w]>> \o @]
               /\ cur' = [cur EXCEPT ![w] = NoJob]
               /\ pc' = [pc EXCEPT ![w] = "idle"]
               /\ tq' = [tq EXCEPT ![w] = 0]
               /\ UNCHANGED wakers
    /\ UNCHANGED <<pipe, suspension_count, schedule, op, result, budget, live, nextId,
                   done, hist>>

\* --------------------------------------------------------------- wakers
\* The state a fired waker leaves: the pool's waker (mark_awoken) and
\* WakeThread both turn Running into AwokenWhileRunning; a queue that is
\* WaitingForWake goes back on the schedule as Pending for the pool, and to
\* Idle for a thread parked in sync_drain (which leaves its park loop on Idle, 426).
WakeNextState(s, forThread) ==
    CASE s = Running -> AwokenWhileRunning
      [] s = WaitingForWake -> (IF forThread THEN Idle ELSE Pending)
      [] OTHER -> s

wake(k) ==
    /\ k \in wakers
    /\ wakers' = wakers \ {k}
    /\ state' = [state EXCEPT ![k.q] = WakeNextState(@, k.t # 0)]
    /\ schedule' = IF k.t = 0 /\ state[k.q] = WaitingForWake
                   THEN Append(schedule, k.q) ELSE schedule
    /\ UNCHANGED <<pipe, queue, suspension_count, tvars, budget, live, nextId, done, hist>>

\* -------------------------------------------------------------- pipe_in
\* The variables of the scheduler and of the Desync the stream is piped into.
dvars == <<state, queue, suspension_count, schedule, pc, op, tq, cur, result,
           wakers, budget, live, nextId, done, hist>>

\* The Desync the stream is piped into.
Target == 1

\* A variant of the test of line 275 that always keeps the polling function.
PollKeepAlways(r) == TRUE

\* PipeMonitor::poll line 275: "Keep the polling function alive if it has not
\* finished yet".
PollKeep(r) == r # "Ready"

\* PipeMonitor::poll lines 264-272: a polling job starts; it takes the polling
\* function out of the Desync and polls it, or finds None and does nothing.
PipePoll ==
    /\ pipe.at = "idle"
    /\ pipe.queued > 0
    /\ pc[PipeThread] = "idle"
    /\ pipe' = [pipe EXCEPT !.queued = @ - 1,
                            !.this_poll = FALSE,
                            !.started = TRUE,
                            !.afterDrop = pipe.down = "dropped",
                            !.at = IF pipe.this_poll THEN "loop" ELSE "idle"]
    /\ UNCHANGED dvars

\* pipe_in line 51: the stream is not ready; the polling function returns
\* NotReady and PipeMonitor::poll puts it back (275-278).
StreamNotReady ==
    /\ pipe.at = "loop"
    /\ pipe' = [pipe EXCEPT !.at = "idle",
                            !.this_poll = PollKeep("NotReady"),
                            !.polledAfterEnd = @ \/ pipe.ended]
    /\ UNCHANGED dvars

\* pipe_in line 54: the stream has ended; the polling function returns Ready(()).
StreamEnd ==
    /\ pipe.at = "loop"
    /\ pipe' = [pipe EXCEPT !.at = "idle",
                            !.this_poll = PollKeep("Ready"),
                            !.ended = TRUE,
                            !.finished = TRUE,
                            !.polledAfterEnd = @ \/ pipe.ended]
    /\ UNCHANGED dvars

\* pipe_in lines 57-74: the stream returned an item or an error; the closure
\* calls desync.sync with a job that hands it to the processor.
StreamItem(e) ==
    /\ pipe.at = "loop"
    /\ Len(pipe.produced) < MaxItems
    /\ pipe' = [pipe EXCEPT !.at = "sync",
                            !.item = e,
                            !.produced = Append(@, e),
                            !.polledAfterEnd = @ \/ pipe.ended]
    /\ SyncCall(PipeThread, Target, "sync")
    /\ UNCHANGED budget

\* pipe_in lines 64, 74 and 44: desync.sync has returned, the loop goes on.
PipeSyncReturned ==
    /\ pipe.at = "sync"
    /\ pc[PipeThread] = "idle"
    /\ pipe' = [pipe EXCEPT !.at = "loop", !.item = NoEvent]
    /\ UNCHANGED dvars

\* PipeNotify::notify, lines 305-308: the stream notifies its task, which
\* queues a polling job on the monitor's Desync.
PipeNotify ==
    /\ pipe.started
    /\ pipe.notifies < MaxNotify
    /\ pipe' = [pipe EXCEPT !.queued = @ + 1, !.notifies = @ + 1]
    /\ UNCHANGED dvars

\* ----------------------------------------------------------------- pipe
\* A variant of the upgrade that succeeds although the PipeStream is gone.
UpgradeAlways(d) == TRUE

\* pipe line 106: stream_core.upgrade() succeeds while the PipeStream, the only
\* lasting owner of the core, has not been dropped.
Upgrade(d) == d = "live"

\* pipe lines 106-108 and 151-154: at the top of the loop the closure upgrades
\* its weak reference; "we stop processing once nothing is reading from the
\* target stream".
PipeUpgrade ==
    /\ pipe.at = "loop"
    /\ pipe' = IF Upgrade(pipe.down)
               THEN [pipe EXCEPT !.at = "poll"]
               ELSE [pipe EXCEPT !.at = "idle",
                                 !.this_poll = PollKeep("Ready"),
                                 !.finished = TRUE]
    /\ UNCHANGED dvars

\* pipe line 117: the input stream is not ready.
OutNotReady ==
    /\ pipe.at = "poll"
    /\ pipe' = [pipe EXCEPT !.at = "idle",
                            !.this_poll = PollKeep("NotReady"),
                            !.polledAfterEnd = @ \/ pipe.ended,
                            !.polledAfterDrop = @ \/ pipe.afterDrop]
    /\ UNCHANGED dvars

\* pipe lines 120-128: the input stream has ended; the PipeStream is marked
\* closed and its task notified.
OutEnd ==
    /\ pipe.at = "poll"
    /\ pipe' = [pipe EXCEPT !.at = "idle",
                            !.this_poll = PollKeep("Ready"),
                            !.ended = TRUE,
                            !.finished = TRUE,
                            !.closed = TRUE,
                            !.notify = TakeNotify(@),
                            !.woken = Wake(pipe.notify, @),
                            !.polledAfterEnd = @ \/ pipe.ended,
                            !.polledAfterDrop = @ \/ pipe.afterDrop]
    /\ UNCHANGED dvars

\* pipe lines 131-149: the input stream returned an item or an error, which
\* goes to desync.sync.
OutItem(e) ==
    /\ pipe.at = "poll"
    /\ Len(pipe.produced) < MaxItems
    /\ pipe' = [pipe EXCEPT !.at = "sync",
                            !.item = e,
                            !.produced = Append(@, e),
                            !.polledAfterEnd = @ \/ pipe.ended,
                            !.polledAfterDrop = @ \/ pipe.afterDrop]
    /\ SyncCall(PipeThread, Target, "sync")
    /\ UNCHANGED budget

\* A variant of the poll that reports the end as soon as the stream is closed.
PollResultClosedFirst(pending, closed) ==
    IF closed THEN "end" ELSE IF pending # <<>> THEN "item" ELSE "wait"

\* PipeStream::poll lines 218-232: a waiting value first, then the end of a
\* closed stream, else not ready.
PollResult(pending, closed) ==
    IF pending # <<>> THEN "item" ELSE IF closed THEN "end" ELSE "wait"

\* impl Stream for PipeStream, poll (214-233), under the lock of the core.
DownPoll ==
    /\ pipe.down = "live"
    /\ ~pipe.downEnded
    /\ LET r == PollResult(pipe.pending, pipe.closed)
       IN pipe' = CASE r = "item" -> [pipe EXCEPT !.taken = Append(@, Head(pipe.pending)),
                                                  !.pending = Tail(@),
                                                  !.parked = FALSE, !.woken = FALSE]
                    [] r = "end" -> [pipe EXCEPT !.downEnded = TRUE,
                                                 !.parked = FALSE, !.woken = FALSE]
                    [] OTHER -> [pipe EXCEPT !.notify = TRUE,
                                             !.parked = TRUE, !.woken = FALSE]
    /\ UNCHANGED dvars

\* impl Drop for PipeStream (198-208): the pending queue is flushed; the
\* monitor is not told.
DownDrop ==
    /\ pipe.down = "live"
    /\ pipe' = [pipe EXCEPT !.down = "dropped", !.pending = <<>>]
    /\ UNCHANGED dvars

\* -------------------------------------------------------------- monitor
\* The strong references to the monitor's Desync: monitor()'s own (295), one in
\* the closure of every queued polling job (296-299, 307-308), the one the
\* running job moved into its PipeNotify (266-269), and the one in the
\* PipeNotify the stream's task handle keeps alive.
Refs(p) ==
    (IF p.owner # "gone" THEN 1 ELSE 0) + p.queued
        + (IF p.at \notin {"idle", "drop"} THEN 1 ELSE 0)
        + (IF p.task # "none" THEN 1 ELSE 0)

\* The state of the monitor's queue: Running while a polling job runs on it
\* (sync line 555 for the first job, the pool's drain for the others).
MonitorState(p) ==
    IF p.at # "idle" THEN Running ELSE IF p.queued > 0 THEN Pending ELSE Idle

\* Desync::drop (desync.rs 151-172) ends with a sync on the queue: a call made
\* from inside a job of that queue which selects WaitForBackground (551) waits
\* at 512-517 for a job queued behind the one that is calling it.
DropOutcome(s, inJob) ==
    IF inJob /\ RunAction(s) = "WaitForBackground" THEN "stuck" ELSE "dropped"

\* A thread outside the queue's jobs released a reference; if it was the last
\* one, the Desync is dropped there.
Released(p) ==
    IF Refs(p) = 0 THEN [p EXCEPT !.handle = DropOutcome(MonitorState(p), FALSE)] ELSE p

\* PipeMonitor::poll lines 264-272: a polling job starts on the monitor's queue;
\* it takes the polling function and polls it with a new PipeNotify that owns
\* the job's reference, or finds None and returns.
MonitorPoll ==
    /\ pipe.at = "idle"
    /\ pipe.queued > 0
    /\ pipe.handle = "live"
    /\ pc[PipeThread] = "idle"
    /\ pipe' = [pipe EXCEPT !.queued = @ - 1,
                            !.this_poll = FALSE,
                            !.started = TRUE,
                            !.at = IF pipe.this_poll THEN "loop" ELSE "exit"]
    /\ UNCHANGED dvars

\* pipe_in line 51 and PipeMonitor::poll 275-278: the stream is not ready and has
\* kept a handle of the current task; the polling function is put back.
MonitorNotReady ==
    /\ pipe.at = "loop"
    /\ pipe' = [pipe EXCEPT !.at = "exit",
                            !.this_poll = PollKeep("NotReady"),
                            !.task = "held"]
    /\ UNCHANGED dvars

\* pipe_in line 54 and PipeMonitor::poll 275: the stream has ended, the polling
\* function returns Ready(()) and is not put back.
MonitorEnd ==
    /\ pipe.at = "loop"
    /\ pipe' = [pipe EXCEPT !.at = "exit",
                            !.this_poll = PollKeep("Ready"),
                            !.ended = TRUE,
                            !.finished = TRUE]
    /\ UNCHANGED dvars

\* PipeMonitor::poll lines 279-280: the job returns and its PipeNotify (or its
\* unused next_poll) goes out of scope. If that was the last reference, the
\* Desync is dropped here, inside the job.
MonitorExit ==
    /\ pipe.at = "exit"
    /\ LET p == [pipe EXCEPT !.at = "idle",
                             !.owner = IF @ = "sync" THEN "held" ELSE @]
       IN pipe' = IF Refs(p) = 0 THEN [p EXCEPT !.at = "drop"] ELSE p
    /\ UNCHANGED dvars

\* Desync::drop called from the polling job (desync.rs 168, sync 547-556): the
\* queue is Running, the job that is calling.
JobDrop ==
    /\ pipe.at = "drop"
    /\ pipe.handle = "live"
    /\ pipe' = [pipe EXCEPT !.handle = DropOutcome(Running, TRUE)]
    /\ UNCHANGED dvars

\* PipeMonitor::monitor line 300: poll_fn.sync has returned and monitor()
\* returns, which releases its reference.
MonitorReturn ==
    /\ pipe.owner = "held"
    /\ pipe' = Released([pipe EXCEPT !.owner = "gone"])
    /\ UNCHANGED dvars

\* PipeNotify::notify, lines 305-308: the stream notifies the task handle it
\* holds, which queues a polling job with a new reference.
MonitorNotify ==
    /\ pipe.task # "none"
    /\ pipe.notifies < MaxNotify
    /\ pipe' = [pipe EXCEPT !.queued = @ + 1, !.notifies = @ + 1,
                            !.task = "notified"]
    /\ UNCHANGED dvars

\* The stream (or the sender that feeds it) drops the task handle once it has
\* notified it.
TaskDrop ==
    /\ pipe.task = "notified"
    /\ pipe' = Released([pipe EXCEPT !.task = "none"])
    /\ UNCHANGED dvars

\* ------------------------------------------------------ specifications
CallerStep(t) ==
    \/ schedule_push(t)
    \/ reschedule_queue(t)
    \/ reschedule_push(t)
    \/ sync_immediate_idle(t)
    \/ sync_drain_push(t)
    \/ sync_drain_check(t)
    \/ sync_drain_dequeue(t)
    \/ sync_drain_none(t)
    \/ sync_drain_wait(t)
    \/ sync_drain_idle(t)
    \/ sync_background_push(t)
    \/ sync_background_wait(t)
    \/ Return(t)

WorkerStep(w) ==
    \/ next_to_run(w)
    \/ run_queue(w)

\* desync, sync, suspend and resume on one queue.
Init == InitWith({1}, Budget(MaxDesync, MaxSync, MaxSuspend, 0, 0, 0))

Next ==
    \/ \E t \in Callers, q \in Queues : schedule_job_desync(t, q, "job")
    \/ \E t \in Callers, q \in Queues : schedule_job_desync(t, q, "suspend")
    \/ \E t \in Callers, q \in Queues : sync(t, q)
    \/ \E t \in Callers, q \in Queues : resume(t, q)
    \/ \E t \in Callers : CallerStep(t)
    \/ \E w \in Workers : WorkerStep(w)
    \/ \E t \in Threads : JobReady(t)
    \/ \E t \in Threads : JobSetResult(t)

Spec == Init /\ [][Next]_vars

\* The same operations with nested suspensions: fewer jobs, more suspend() calls.
InitSuspend == InitWith({1}, Budget(SuspDesync, SuspSync, SuspSuspend, 0, 0, 0))

SpecSuspend == InitSuspend /\ [][Next]_vars

\* Future jobs as well, which may return Poll::Pending and be woken.
InitFuture == InitWith({1}, Budget(FutDesync, FutSync, FutSuspend, MaxFuture, 0, 0))

NextFuture ==
    \/ Next
    \/ \E t \in Callers, q \in Queues : schedule_job_desync(t, q, "future")
    \/ \E t \in Callers : sync_drain_pending(t)
    \/ \E t \in Callers : sync_drain_park(t)
    \/ \E w \in Workers : run_queue_pending(w)
    \/ \E t \in Threads : JobPending(t)
    \/ \E k \in wakers : wake(k)

\* Threads make progress: a caller inside a call continues it, a pool thread
\* takes scheduled queues and drains them, a job body terminates, and a future
\* that returned Poll::Pending is woken. Nothing forces a caller to start a
\* new call.
Fair ==
    /\ \A t \in Callers : WF_vars(CallerStep(t))
    /\ \A t \in Callers : WF_vars(sync_drain_pending(t) \/ sync_drain_park(t))
    /\ \A w \in Workers : WF_vars(WorkerStep(w) \/ run_queue_pending(w))
    /\ \A t \in Threads : WF_vars(JobReady(t))
    /\ \A t \in Threads : WF_vars(JobSetResult(t))
    /\ WF_vars(\E k \in wakers : wake(k))

FairSpec == InitFuture /\ [][NextFuture]_vars /\ Fair

\* The owner finally drops the Desync.
InitDrop == InitWith({1}, Budget(DropDesync, DropSync, DropSuspend, 0, 0, MaxDrop))

NextDrop ==
    \/ Next
    \/ \E t \in Callers, q \in Queues : drop(t, q)

SpecDrop == InitDrop /\ [][NextDrop]_vars

\* Job bodies may panic.
InitPanic == InitWith({1}, Budget(PanicDesync, PanicSync, PanicSuspend, 0, MaxPanic, 0))

NextPanic ==
    \/ Next
    \/ \E t \in Threads : JobPanic(t)

SpecPanic == InitPanic /\ [][NextPanic]_vars

\* The owner drops a Desync that hosts future jobs. A pending future need not
\* ever be woken: the threads make progress, the wakers are under no obligation.
InitDropFuture ==
    InitWith({1}, Budget(FutDesync, FutSync, FutSuspend, MaxFuture, 0, MaxDrop))

NextDropFuture ==
    \/ NextFuture
    \/ \E t \in Callers, q \in Queues : drop(t, q)

FairThreads ==
    /\ \A t \in Callers : WF_vars(CallerStep(t))
    /\ \A t \in Callers : WF_vars(sync_drain_pending(t) \/ sync_drain_park(t))
    /\ \A w \in Workers : WF_vars(WorkerStep(w) \/ run_queue_pending(w))
    /\ \A t \in Threads : WF_vars(JobReady(t))
    /\ \A t \in Threads : WF_vars(JobSetResult(t))

FairSpecDrop == InitDropFuture /\ [][NextDropFuture]_vars /\ FairThreads

\* The owner drops the Desync after a job body may have panicked.
InitDropPanic ==
    InitWith({1}, Budget(DropDesync, DropSync, DropSuspend, 0, MaxPanic, MaxDrop))

NextDropPanic ==
    \/ NextDrop
    \/ \E t \in Threads : JobPanic(t)

SpecDropPanic == InitDropPanic /\ [][NextDropPanic]_vars

\* Several queues share the pool, whose thread cap is NWorkers.
InitQueues == InitWith(Queues, Budget(MaxDesync, MaxSync, MaxSuspend, 0, 0, 0))

SpecQueues == InitQueues /\ [][Next]_vars

\* A thread cap of 0 (set_max_threads(0)): the pool has no thread, so a
\* scheduled queue stays on the schedule until a sync call drains it. The
\* threads inside a call make progress and job bodies terminate.
NextNoPool ==
    \/ \E t \in Callers, q \in Queues : schedule_job_desync(t, q, "job")
    \/ \E t \in Callers, q \in Queues : schedule_job_desync(t, q, "suspend")
    \/ \E t \in Callers, q \in Queues : sync(t, q)
    \/ \E t \in Callers, q \in Queues : resume(t, q)
    \/ \E t \in Callers : CallerStep(t)
    \/ \E t \in Callers : JobReady(t)
    \/ \E t \in Callers : JobSetResult(t)

FairCallers ==
    /\ \A t \in Callers : WF_vars(CallerStep(t))
    /\ \A t \in Callers : WF_vars(JobReady(t))
    /\ \A t \in Callers : WF_vars(JobSetResult(t))

FairSpecNoPool == Init /\ [][NextNoPool]_vars /\ FairCallers

\* A stream is piped into the Desync of queue Target, which other threads
\* use as well (pipe_in, PipeMonitor::monitor: the polling function is stored
\* and its first polling job is submitted, pipe.rs 289-299).
InitPipe ==
    /\ InitState({Target}, Budget(PipeDesync, PipeSync, PipeSuspend, 0, 0, 0))
    /\ pipe = [NoPipe EXCEPT !.this_poll = TRUE, !.queued = 1]

Users == Callers \ {PipeThread}

NextPipe ==
    \/ \E t \in Users, q \in Queues : schedule_job_desync(t, q, "job")
    \/ \E t \in Users, q \in Queues : schedule_job_desync(t, q, "suspend")
    \/ \E t \in Users, q \in Queues : sync(t, q)
    \/ \E t \in Users, q \in Queues : resume(t, q)
    \/ \E t \in Callers : CallerStep(t)
    \/ \E w \in Workers : WorkerStep(w)
    \/ \E t \in Threads : JobReady(t)
    \/ \E t \in Threads : JobSetResult(t)
    \/ PipePoll
    \/ StreamNotReady
    \/ StreamEnd
    \/ \E e \in Events : StreamItem(e)
    \/ PipeSyncReturned
    \/ PipeNotify

SpecPipe == InitPipe /\ [][NextPipe]_vars

\* pipe(desync, stream, process): the bridge, the consumer of the PipeStream
\* it returned, and other threads that use the Desync (which nobody suspends).
InitPipeOut ==
    /\ InitState({Target}, Budget(PipeDesync, PipeSync, 0, 0, 0, 0))
    /\ pipe = [NoPipe EXCEPT !.mode = "pipe", !.this_poll = TRUE, !.queued = 1]

NextPipeOut ==
    \/ \E t \in Users, q \in Queues : schedule_job_desync(t, q, "job")
    \/ \E t \in Users, q \in Queues : sync(t, q)
    \/ \E t \in Callers : schedule_push(t)
    \/ \E t \in Callers : reschedule_queue(t)
    \/ \E t \in Callers : reschedule_push(t)
    \/ \E t \in Callers : sync_immediate_idle(t)
    \/ \E t \in Callers : sync_drain_push(t)
    \/ \E t \in Callers : sync_drain_check(t)
    \/ \E t \in Callers : sync_drain_dequeue(t)
    \/ \E t \in Callers : sync_drain_idle(t)
    \/ \E t \in Callers : sync_background_push(t)
    \/ \E t \in Callers : sync_background_wait(t)
    \/ \E t \in Callers : Return(t)
    \/ \E w \in Workers : WorkerStep(w)
    \/ \E t \in Threads : JobReady(t)
    \/ \E t \in Threads : JobSetResult(t)
    \/ PipePoll
    \/ PipeUpgrade
    \/ OutNotReady
    \/ OutEnd
    \/ \E e \in Events : OutItem(e)
    \/ PipeSyncReturned
    \/ PipeNotify
    \/ DownPoll
    \/ DownDrop

SpecPipeOut == InitPipeOut /\ [][NextPipeOut]_vars

\* The same operations with a thread calling sync again after its call returned.
InitRunners == InitWith({1}, Budget(RunDesync, RunSync, RunSuspend, 0, 0, 0))

SpecRunners == InitRunners /\ [][Next]_vars

\* suspend, resume and sync only, with a third suspension.
InitNested == InitWith({1}, Budget(0, NestSync, NestSuspend, 0, 0, 0))

NextNested ==
    \/ \E t \in Callers, q \in Queues : schedule_job_desync(t, q, "suspend")
    \/ \E t \in Callers, q \in Queues : sync(t, q)
    \/ \E t \in Callers, q \in Queues : resume(t, q)
    \/ \E t \in Callers : CallerStep(t)
    \/ \E w \in Workers : WorkerStep(w)
    \/ \E t \in Threads : JobReady(t)
    \/ \E t \in Threads : JobSetResult(t)

SpecNested == InitNested /\ [][NextNested]_vars

\* pipe_in with the references to the monitor's Desync: the bridge alone uses
\* the Desync the stream is piped into.
InitMonitor ==
    /\ InitState({Target}, Budget(0, 0, 0, 0, 0, 0))
    /\ pipe = [NoPipe EXCEPT !.this_poll = TRUE, !.queued = 1]

NextMonitor ==
    \/ MonitorPoll
    \/ MonitorNotReady
    \/ MonitorEnd
    \/ \E e \in Events : StreamItem(e)
    \/ PipeSyncReturned
    \/ MonitorExit
    \/ JobDrop
    \/ MonitorReturn
    \/ MonitorNotify
    \/ TaskDrop
    \/ \E t \in Callers : JobReady(t)
    \/ \E t \in Callers : sync_immediate_idle(t)
    \/ \E t \in Callers : reschedule_queue(t)
    \/ \E t \in Callers : Return(t)

SpecMonitor == InitMonitor /\ [][NextMonitor]_vars

\* ------------------------------------------------------------ properties
\* The threads that are inside the body of a job of queue q.
InBody(t) == pc[t] \in {"imm_run", "drain_run", "w_run"}
Executing(q) == {t \in Threads : InBody(t) /\ tq[t] = q}

\* The ids of the jobs of queue q that some thread holds.
Held(q) == {cur[t].id : t \in {u \in Threads : Polling(u) /\ tq[u] = q}}

\* C1: at most one job of a queue is executing at any instant, whichever
\* thread runs it (a pool thread or a thread inside sync).
SerialExecution == \A q \in Queues : Cardinality(Executing(q)) <= 1

\* C2: jobs of one queue run in the order of their submission: whenever a job
\* is being run, every job submitted before it has completed.
SubmissionOrder ==
    \A t \in Threads : Polling(t) => (1..(cur[t].id - 1)) \subseteq done[tq[t]]

\* C3: when a sync call returns, every job submitted to the queue before the
\* call started has completed.
SyncAfterPrior ==
    \A t \in Callers : pc[t] = "ret" => hist.prior[t] \subseteq done[tq[t]]

\* The ids of the jobs of queue q whose body has run to its end: the completed
\* jobs and the sync jobs that only have their notify_one left.
BodyOver(q) ==
    done[q] \cup {cur[t].id : t \in {u \in Threads : pc[u] \in {"drain_run2", "w_run2"}
                                                    /\ tq[u] = q}}

\* C4: the datum is destroyed only by the terminal job of drop, after every
\* job submitted earlier has finished, and no other job of the object executes
\* once the datum is destroyed.
DropIsTerminal ==
    \A q \in Queues : ~hist.dataAlive[q] =>
        /\ (1..(nextId[q] - 2)) \subseteq BodyOver(q)
        /\ \A t \in Threads : ~(InBody(t) /\ tq[t] = q /\ cur[t].kind # "drop")

\* C5: when a sync call whose job was queued returns, the job has stored the
\* result, has signalled the caller, and is neither queued nor executing.
SyncJobOver(t) ==
    /\ result[t] = "some"
    /\ hist.signalled[t]
    /\ \A i \in 1..Len(queue[tq[t]]) : queue[tq[t]][i].owner # t
    /\ \A u \in Threads : ~(Polling(u) /\ cur[u].owner = t)

SyncReturnsAfterJob ==
    \A t \in Callers :
        (pc[t] = "ret" /\ op[t] \in {"sync_drain", "sync_bg"}) => SyncJobOver(t)

\* C6: while suspension_count > 0 no job of the queue starts once the job
\* during which the queue was suspended has completed.
NoStartWhileSuspended == \A q \in Queues : hist.badStart[q] = {}

\* The suspend calls whose effect is outstanding: the suspend jobs that have
\* run, less the resume calls made.
Outstanding(q) ==
    IF hist.suspendRun[q] >= hist.resumes[q]
    THEN hist.suspendRun[q] - hist.resumes[q] ELSE 0

\* C7 as stated: suspension_count is never negative and equals the number of
\* suspend calls whose effect is outstanding.
CountNonNegative ==
    \A q \in Queues : /\ suspension_count[q] >= 0
                      /\ suspension_count[q] = Outstanding(q)

\* C7, as the code has it: suspension_count is the number of suspend jobs that
\* have run minus the number of resume calls; it is negative exactly while a
\* resume has overtaken a suspend job that is still queued, and never lower
\* than minus the number of such queued suspend jobs.
CountMatchesRuns ==
    \A q \in Queues :
        /\ suspension_count[q] = hist.suspendRun[q] - hist.resumes[q]
        /\ suspension_count[q] >= -(hist.suspends[q] - hist.suspendRun[q])
        /\ suspension_count[q] <= hist.suspends[q] - hist.resumes[q]

\* A resume has been processed before the suspend job it is paired with ran.
ResumeOvertook ==
    \E q \in Queues : /\ suspension_count[q] < 0
                      /\ hist.resumes[q] > hist.suspendRun[q]

\* No call is in progress and nothing is scheduled.
Settled == /\ \A t \in Threads : pc[t] = "idle"
           /\ schedule = <<>>

AllResumed == <>[](\A q \in Queues : hist.resumes[q] = hist.suspends[q])

JobIds == 1..(FutDesync + FutSync + FutSuspend + MaxFuture)

\* C9: if every suspension is eventually resumed, every job submitted to the
\* queue is eventually executed (jobs terminate, pending futures are woken, no
\* job body panics, a pool thread runs).
EveryJobRuns ==
    AllResumed => \A i \in JobIds : [](i < nextId[1] => <>(i \in done[1]))

\* C10: once a queue has been Panicked, every later submission fails and no
\* job submitted later is ever executed.
PanickedRejects ==
    \A q \in Queues :
        /\ ~hist.accepted[q]
        /\ hist.late[q] \cap (done[q] \cup Held(q)) = {}

\* C11: once a queue has been Panicked its state never changes again.
PanickedIsPermanent ==
    \A q \in Queues : hist.everPanicked[q] => state[q] = Panicked

\* C12: dropping a Desync never panics, also when its queue is Panicked.
DropNeverPanics == \A q \in Queues : ~hist.dropPanicked[q]

\* C13: the drop of a Desync whose queue is WaitingForWake returns, also when
\* the pending job is never woken (its waker stays unfired).
DropOfWaitingReturns ==
    \A q \in Queues :
        (hist.dropState[q] = WaitingForWake)
            ~> (hist.dropped[q] \/ \A k \in wakers : k.q # q)

\* C14: a queue is on the global run-list only while its state is Pending; it
\* is not on the run-list while a sync caller that found it Pending drains it.
ScheduledOnlyPending ==
    \A i \in 1..Len(schedule) : state[schedule[i]] = Pending

\* The future jobs of queue q that have returned Poll::Pending and have not
\* resolved: held by the thread that polls them or back in the job buffer.
FutureJobs(q) ==
    {cur[t] : t \in {u \in Threads : tq[u] = q /\ cur[u].kind = "future"}}
        \cup {queue[q][i] : i \in {n \in 1..Len(queue[q]) : queue[q][n].kind = "future"}}
PendingFutures(q) == {j.id : j \in {f \in FutureJobs(q) : f.polls < MaxPending}}

\* C15: while a future job of a queue has returned Pending and has not yet
\* resolved, no other job of that queue executes (jobs submitted meanwhile run
\* after the future has resolved), and the future is run to completion once:
\* it is never held by two threads nor held or queued again once completed.
FutureHoldsQueue ==
    \A q \in Queues :
        /\ \A t \in Executing(q) : PendingFutures(q) \subseteq {cur[t].id}
        /\ \A j \in FutureJobs(q) : j.id \notin done[q]
        /\ \A t, u \in Threads :
              (t # u /\ tq[t] = q /\ tq[u] = q /\ cur[t].kind = "future")
                  => cur[u].id # cur[t].id

\* C16: for after(fut, f), whose job is a future job that awaits fut and then
\* calls f: f runs (the poll that finds fut resolved) only after every job
\* submitted earlier has completed, it runs once, and every job submitted later
\* completes only after f has run.
AfterIsOrdered ==
    \A q \in Queues :
        /\ \A t \in Executing(q) :
              cur[t].kind = "future" => (1..(cur[t].id - 1)) \subseteq done[q]
        /\ \A j \in FutureJobs(q) : \A i \in done[q] : i < j.id

\* C17: with a worker cap of 1 and several queues, each queue runs its jobs
\* serially and in submission order, and no two job bodies of any queues
\* execute at the same time, whatever the mix of desync and sync submissions.
CapOneNoOverlap ==
    /\ \A q \in Queues : Cardinality(Executing(q)) <= 1
    /\ \A t \in Threads : Polling(t) => (1..(cur[t].id - 1)) \subseteq done[tq[t]]
    /\ Cardinality({t \in Threads : InBody(t)}) <= 1

\* C18: with a worker cap of 0 every sync call returns (with the result of its
\* closure), also when another thread is inside sync on the same queue, and
\* every submitted job is executed, on a caller's thread. Calls on a queue
\* that somebody suspends are left out.
InSync(t) == op[t] \in {"sync_imm", "sync_drain", "sync_bg"}
NoSuspendCall == \A q \in Queues : hist.suspends[q] = 0

CapZeroSyncReturns ==
    /\ \A t \in Callers :
          (InSync(t) /\ NoSuspendCall) ~> (~InSync(t) \/ ~NoSuspendCall)
    /\ \A i \in 1..(MaxDesync + MaxSync) :
          (i < nextId[1] /\ NoSuspendCall) ~> (i \in done[1] \/ ~NoSuspendCall)

\* Sequence a is an initial part of sequence b.
IsPrefix(a, b) == Len(a) <= Len(b) /\ \A i \in 1..Len(a) : a[i] = b[i]

\* C19: pipe_in calls the processor once for each item or error of the
\* stream, in the stream's order (the next one is polled only after the
\* processor was called with the last); an error is handed over like an item
\* and does not end the bridge, which ends only with the stream, having
\* handed over everything, and the stream is never polled after its end.
PipeDelivers ==
    /\ IsPrefix(pipe.delivered, pipe.produced)
    /\ Len(pipe.produced) <= Len(pipe.delivered) + 1
    /\ pipe.at = "loop" => pipe.delivered = pipe.produced
    /\ pipe.finished => (pipe.ended /\ pipe.delivered = pipe.produced)
    /\ ~pipe.polledAfterEnd

\* The stream produced an error and then an item, both were handed to the
\* processor, the stream ended, and a later notification found the bridge gone.
PipeRanToEnd ==
    /\ pipe.finished
    /\ Len(pipe.delivered) = MaxItems
    /\ ~pipe.delivered[1].ok
    /\ pipe.delivered[MaxItems].ok
    /\ pipe.notifies > 0 /\ pipe.queued = 0 /\ pipe.at = "idle"

\* C20: the polling closure of pipe_in never blocks on the Desync it feeds: it
\* is never inside a wait for the processor's job to be run by another thread.
PipeNeverBlocks ==
    ~(pc[PipeThread] \in {"bg_wait", "drain_wait"} /\ result[PipeThread] = "none")

\* The outputs of the processor for a sequence of items and errors.
Outs(sq) == [i \in 1..Len(sq) |-> Out(sq[i])]

\* C21: the stream pipe returns yields the processor's outputs in the order
\* of the upstream items, each once; the end of the upstream sets closed, and
\* the downstream reports its end only when closed is set and every pending
\* output has been taken.
PipeOutOrdered ==
    /\ IsPrefix(pipe.taken, Outs(pipe.produced))
    /\ pipe.down = "live" => pipe.taken \o pipe.pending = Outs(pipe.delivered)
    /\ pipe.ended => pipe.closed
    /\ pipe.downEnded => /\ pipe.closed
                         /\ pipe.pending = <<>>
                         /\ pipe.taken = Outs(pipe.produced)

\* The downstream has taken the outputs of an error and of an item, in that
\* order, and has then been told the end.
PipeOutTaken ==
    /\ pipe.downEnded
    /\ Len(pipe.taken) = MaxItems
    /\ ~pipe.taken[1].good
    /\ pipe.taken[MaxItems].good

\* C22: once the stream pipe returned has been dropped, the next polling job
\* of the bridge does not poll the upstream, returns Ready, and the polling
\* function is not polled again.
PipeStopsAfterDrop ==
    /\ ~pipe.polledAfterDrop
    /\ (pipe.afterDrop /\ pipe.at = "idle") => pipe.finished
    /\ pipe.finished => ~pipe.this_poll

\* The bridge ended because of the drop, not because the upstream ended, and a
\* notification that came later polled nothing.
PipeEndedByDrop ==
    /\ pipe.down = "dropped"
    /\ pipe.finished /\ ~pipe.ended
    /\ pipe.notifies = MaxNotify /\ pipe.queued = 0 /\ pipe.at = "idle"

\* C30: the stream pipe returns loses no wakeup: when its last poll returned
\* NotReady and registered the task, every output pushed and the setting of
\* closed since then has notified the task: a task that waits unnotified has
\* nothing to take.
NoLostWakeup ==
    (pipe.parked /\ ~pipe.woken /\ pipe.down = "live")
        => (pipe.pending = <<>> /\ ~pipe.closed /\ pipe.notify)

\* The downstream waited, the bridge pushed an output and woke it, and it
\* waited again and was woken by the end of the upstream.
WokenTwice ==
    /\ pipe.parked /\ pipe.woken /\ pipe.closed
    /\ pipe.pending = <<>> /\ Len(pipe.taken) > 0

\* The threads that are inline runners of queue q: inside sync_immediate or
\* sync_drain, before the write of Idle that ends their turn, and not waiting
\* for the background.
InlinePcs == {"imm_run", "drain_push", "drain_check", "drain_deq", "drain_run",
              "drain_run2", "drain_none"}
InlineRunners(q) ==
    {t \in Callers : tq[t] = q /\ op[t] \in {"sync_imm", "sync_drain"}
                                /\ pc[t] \in InlinePcs}

\* C23: sync picks its run action and writes Running in one critical section,
\* so a queue has at most one inline runner (Immediate or DrainOnThisThread)
\* at a time, and every state other than Idle, Pending and Panicked selects
\* WaitForBackground.
OneInlineRunner ==
    /\ \A q \in Queues : Cardinality(InlineRunners(q)) <= 1
    /\ \A s \in QueueState \ {Idle, Pending, Panicked} :
          RunAction(s) = "WaitForBackground"

AsyncBudgets == {"desync", "suspend", "future"}
Submitted(q) ==
    /\ nextId'[q] # nextId[q]
    /\ \E b \in AsyncBudgets : budget'[b] < budget[b]
PushedBy(t) == pc[t] = "sched_push" /\ pc'[t] # "sched_push"

\* C24: an asynchronous submission appends its job to the queue's buffer; it
\* moves the queue to Pending and goes on to push it on the schedule exactly
\* when it found the queue Idle, and the push adds that queue and nothing else;
\* in every other state that is not Panicked it leaves the queue state and the
\* schedule as they are.
SubmissionFrame ==
    [][/\ \A q \in Queues : Submitted(q) =>
             /\ Len(queue'[q]) = Len(queue[q]) + 1
             /\ SubSeq(queue'[q], 1, Len(queue[q])) = queue[q]
             /\ queue'[q][Len(queue'[q])].id = nextId[q]
             /\ ~IsSyncKind(queue'[q][Len(queue'[q])].kind)
             /\ \A r \in Queues \ {q} : queue'[r] = queue[r] /\ state'[r] = state[r]
             /\ suspension_count' = suspension_count
             /\ schedule' = schedule
             /\ IF state[q] = Idle
                THEN /\ state'[q] = Pending
                     /\ \E t \in Callers : pc[t] = "idle" /\ pc'[t] = "sched_push"
                                                           /\ tq'[t] = q
                ELSE /\ state'[q] = state[q]
                     /\ \A t \in Callers : pc'[t] = "sched_push" => pc[t] = "sched_push"
       /\ \A t \in Callers : PushedBy(t) =>
             /\ schedule' = Append(schedule, tq[t])
             /\ qvars' = qvars
             /\ pc'[t] = "idle"
       /\ \A t \in Callers : (pc'[t] = "sched_push" /\ pc[t] # "sched_push") =>
             Submitted(tq'[t]) /\ state[tq'[t]] = Idle]_vars

\* A submission found the queue Idle and made it Pending; its push is still to come.
SubmissionFoundIdle ==
    \E t \in Callers :
        /\ pc[t] = "sched_push"
        /\ state[tq[t]] = Pending
        /\ queue[tq[t]] # <<>>
        /\ \A i \in 1..Len(schedule) : schedule[i] # tq[t]

Resumed(q) == hist'.resumes[q] # hist.resumes[q]
NewlyAt(t, p) == pc'[t] = p /\ pc[t] # p
InResume(t) == op[t] = "resume"

\* C25: resume decrements the count; when the count reaches zero it moves a
\* Suspended queue to Idle and goes on to reschedule it (which puts it on the
\* schedule if jobs are pending), or moves a Suspending queue back to Running
\* without rescheduling; when the count stays above zero or the queue is in any
\* other state it changes neither the state nor the schedule.
ResumeEffect ==
    [][/\ \A q \in Queues : Resumed(q) =>
             LET c == suspension_count[q] - 1
             IN /\ suspension_count'[q] = c
                /\ schedule' = schedule
                /\ queue' = queue
                /\ \A r \in Queues \ {q} : state'[r] = state[r]
                /\ CASE c = 0 /\ state[q] = Suspended ->
                            /\ state'[q] = Idle
                            /\ \E t \in Callers : /\ NewlyAt(t, "resched")
                                                  /\ op'[t] = "resume" /\ tq'[t] = q
                     [] c = 0 /\ state[q] = Suspending ->
                            /\ state'[q] = Running
                            /\ \A t \in Callers : ~NewlyAt(t, "resched")
                     [] OTHER ->
                            /\ state'[q] = state[q]
                            /\ \A t \in Callers : ~NewlyAt(t, "resched")
       /\ \A t \in Callers : (InResume(t) /\ pc[t] = "resched" /\ pc'[t] # "resched") =>
             LET q == tq[t]
             IN /\ schedule' = schedule
                /\ IF state[q] = Idle /\ queue[q] # <<>>
                   THEN state'[q] = Pending /\ pc'[t] = "resched_push"
                   ELSE state'[q] = state[q] /\ pc'[t] = "idle"
       /\ \A t \in Callers :
             (InResume(t) /\ pc[t] = "resched_push" /\ pc'[t] # "resched_push") =>
                 schedule' = Append(schedule, tq[t]) /\ state' = state]_vars

\* A resume took the count to zero on a Suspended queue with jobs waiting and
\* is about to reschedule it.
ResumedToIdle ==
    \E t \in Callers :
        /\ InResume(t) /\ pc[t] = "resched"
        /\ suspension_count[tq[t]] = 0
        /\ state[tq[t]] = Idle
        /\ queue[tq[t]] # <<>>

SuspendRan(q) == hist'.suspendRun[q] # hist.suspendRun[q]
HandleResolved(q) == hist'.suspendOk[q] = hist.suspendOk[q] + 1

\* C26: the handle of suspend() resolves exactly when the suspend job ran and
\* left the count above 0, the queue then being Suspending or Suspended; when
\* the increment leaves the count at 0 or below, the queue does not enter
\* Suspending and the handle is dropped unresolved (cancelled).
SuspendHandle ==
    [][\A q \in Queues :
          /\ SuspendRan(q) =>
                LET c == suspension_count'[q]
                IN /\ c = suspension_count[q] + 1
                   /\ HandleResolved(q) <=> c > 0
                   /\ c > 0 => state'[q] \in {Suspending, Suspended}
                   /\ c <= 0 => state'[q] = state[q] /\ state'[q] # Suspending
          /\ hist'.suspendOk[q] # hist.suspendOk[q] => SuspendRan(q)]_vars

\* C27: the state assertions of the inline runners and of the suspend job never
\* fail (367, 394, 448, 288), and no interleaving reaches a 'Queue was in
\* unexpected state' panic of sync_drain (414, 428).
InlineChecksHold ==
    /\ ~hist.assertFailed
    /\ ~hist.unexpected

\* C28: a queue is never on the schedule more than once; a sync caller that
\* took a Pending queue, drained it, wrote Idle and rescheduled it leaves no
\* stale entry beside the new one.
ScheduledOnce ==
    \A i, j \in 1..Len(schedule) : schedule[i] = schedule[j] => i = j

\* C29: in every reachable state a queue is Suspending or Suspended if and only
\* if its suspension_count is greater than 0; the write of Idle at the end of
\* sync_drain never replaces Suspended or Suspending while the count is positive.
SuspendedIffCounted ==
    \A q \in Queues :
        state[q] \in {Suspending, Suspended} <=> suspension_count[q] > 0

\* C31: no job blocks on its own queue: the last reference to the monitor's
\* Desync is never released inside a polling job running on that Desync's
\* queue, so Desync::drop never waits, inside a job, for a sync on the job's
\* own queue.
NoSelfBlock ==
    /\ pipe.at # "drop"
    /\ pipe.handle # "stuck"
====
